---- MODULE Spec2Model ----
(***************************************************************************)
(* Model of the EV analytics dashboard script src/app.py.                  *)
(*                                                                         *)
(* The script is run top to bottom by the UI framework; every change of a  *)
(* sidebar filter starts the script again from its first line.  The only   *)
(* state that survives a rerun is the memoised result of load_data and the *)
(* selections held by the two multiselect widgets.                         *)
(*                                                                         *)
(* Text is modelled as a sequence of one-character strings, so that the    *)
(* suffix test of load_data and the two regular expressions of the cleaner *)
(* are computed character by character.  A numeric CSV cell is a           *)
(* fixed-point number in tenths (12.7 is t = 127), a missing cell (NaN) or *)
(* a text cell that is not a number.                                       *)
(***************************************************************************)
EXTENDS Integers, Sequences, FiniteSets, TLC

VARIABLES
    dir,         \* names in the working directory (os.listdir())
    csv,         \* the rows a CSV file of the directory holds
    cache,       \* st.cache_data's entry for load_data: [has, rows]
    scans,       \* number of directory scans made by load_data's body
    parses,      \* number of pd.read_csv calls
    loadedFrom,  \* where this run's df came from: "none" | "parse" | "cache"
    files,       \* load_data's local list of matching names
    pc,          \* the statement group the run is at
    status,      \* "running" | "done" | "stopped" (st.stop) | "crashed"
    df,          \* the table of this run (raw after load, cleaned after clean)
    widget,      \* session state of the two multiselects: [set, year, make]
    df_f,        \* the filtered table of this run
    rendered,    \* elements put on the page by this run
    tiles,       \* values shown by the four KPI tiles
    fig_make,    \* data of the manufacturer bar chart
    fig_year     \* data of the year line chart

vars == <<dir, csv, cache, scans, parses, loadedFrom, files, pc, status, df,
          widget, df_f, rendered, tiles, fig_make, fig_year>>

(***************************************************************************)
(* Bounds of the model.                                                    *)
(***************************************************************************)
MaxRows == 2        \* rows of the CSV file in the dashboard runs
MaxCleanRows == 2   \* rows of the tables that enumerate the numeric cells
MaxCoordLen == 3    \* characters of a coordinate text in the geometry tables

(***************************************************************************)
(* Small helpers.                                                          *)
(***************************************************************************)
Min(S) == CHOOSE m \in S : \A k \in S : m <= k

\* Python's int() of a float quotient a / b, b > 0: truncation toward zero.
TruncDiv(a, b) == IF a >= 0 THEN a \div b ELSE -((-a) \div b)

Digits == {"0", "1", "2", "3", "4", "5", "6", "7", "8", "9"}

DigitVal(c) ==
    CASE c = "0" -> 0 [] c = "1" -> 1 [] c = "2" -> 2 [] c = "3" -> 3
      [] c = "4" -> 4 [] c = "5" -> 5 [] c = "6" -> 6 [] c = "7" -> 7
      [] c = "8" -> 8 [] c = "9" -> 9

\* str.lower() on the characters that occur in the modelled file names.
LowerChar(c) ==
    CASE c = "A" -> "a" [] c = "B" -> "b" [] c = "C" -> "c"
      [] c = "S" -> "s" [] c = "V" -> "v" [] OTHER -> c

Lower(s) == [i \in 1..Len(s) |-> LowerChar(s[i])]

EndsWith(s, suffix) ==
    /\ Len(s) >= Len(suffix)
    /\ SubSeq(s, Len(s) - Len(suffix) + 1, Len(s)) = suffix

CsvSuffix == <<".", "c", "s", "v">>

\* The suffix test without lower(): a variant that misses B.CSV.
IsCsv_CaseSensitive(f) == EndsWith(f, CsvSuffix)

\* f.lower().endswith(".csv")
IsCsv(f) == EndsWith(Lower(f), CsvSuffix)

(***************************************************************************)
(* Directory entries the runs are started with.                            *)
(***************************************************************************)
FileNames ==
    { <<"a", ".", "c", "s", "v">>,
      <<"B", ".", "C", "S", "V">>,
      <<"c", "s", "v">> }

(***************************************************************************)
(* Numeric cells of the CSV file.                                          *)
(***************************************************************************)
NumCell(tenths) == [kind |-> "num", t |-> tenths]
IntCell(n) == NumCell(10 * n)
NaNCell == [kind |-> "nan", t |-> 0]
TextCell == [kind |-> "text", t |-> 0]

\* Series.fillna(0)
Fillna0(c) == IF c.kind = "nan" THEN IntCell(0) ELSE c

\* A variant that rounds to the nearest integer instead of truncating.
AstypeInt_Round(c) ==
    IF c.kind = "num" THEN [ok |-> TRUE, v |-> (c.t + 5) \div 10]
                      ELSE [ok |-> FALSE, v |-> 0]

\* One element of Series.astype(int): a NaN or a text that is no number
\* raises, a float is truncated toward zero.
AstypeInt(c) ==
    IF c.kind = "num" THEN [ok |-> TRUE, v |-> TruncDiv(c.t, 10)]
                      ELSE [ok |-> FALSE, v |-> 0]

(***************************************************************************)
(* The two regular expressions of the cleaner, with re.search semantics:   *)
(* the leftmost position where the pattern matches, the character class    *)
(* taken greedily.                                                         *)
(***************************************************************************)
\* A variant of the character class without the sign.
IsCoordChar_NoSign(c) == c \in ({"."} \cup Digits)

\* [-\d\.]
IsCoordChar(c) == c \in ({"-", "."} \cup Digits)

AllCoord(s, i, j) == \A k \in i..j : IsCoordChar(s[k])

PointPrefix == <<"P", "O", "I", "N", "T", " ", "(">>

NoMatch == [matched |-> FALSE, text |-> <<>>]

\* The end of the longest run of class characters that starts at i.
RunEnd(s, i) ==
    CHOOSE j \in i..Len(s) :
        /\ AllCoord(s, i, j)
        /\ (j = Len(s) \/ ~IsCoordChar(s[j + 1]))

\* POINT \(([-\d\.]+)
MatchLonAt(s, i) ==
    /\ i + Len(PointPrefix) <= Len(s)
    /\ SubSeq(s, i, i + Len(PointPrefix) - 1) = PointPrefix
    /\ IsCoordChar(s[i + Len(PointPrefix)])

ExtractLon(s) ==
    LET starts == {i \in 1..Len(s) : MatchLonAt(s, i)}
    IN  IF starts = {} THEN NoMatch
        ELSE LET b == Min(starts) + Len(PointPrefix)
             IN  [matched |-> TRUE, text |-> SubSeq(s, b, RunEnd(s, b))]

\* $ : the end of the string, or just before a newline that ends it.
AtEnd(s, k) == k = Len(s) + 1 \/ (k = Len(s) /\ s[k] = "\n")

\* ([-\d\.]+)\)$ matched from i with the group ending at j.
MatchLatAt(s, i, j) ==
    /\ AllCoord(s, i, j)
    /\ j + 1 <= Len(s)
    /\ s[j + 1] = ")"
    /\ AtEnd(s, j + 2)

ExtractLat(s) ==
    LET starts == {i \in 1..Len(s) : \E j \in i..Len(s) : MatchLatAt(s, i, j)}
    IN  IF starts = {} THEN NoMatch
        ELSE LET i == Min(starts)
                 j == CHOOSE e \in i..Len(s) : MatchLatAt(s, i, e)
             IN  [matched |-> TRUE, text |-> SubSeq(s, i, j)]

(***************************************************************************)
(* astype(float) of one extracted text.  The text holds class characters   *)
(* only, and Python's float() accepts such a text when it is an optional   *)
(* '-', then digits with at most one '.', at least one digit in all.       *)
(* A float is [nan, num, exp] with value num / 10^exp, trailing zeros of   *)
(* the fraction removed so that equal values are equal records.            *)
(***************************************************************************)
NaN == [nan |-> TRUE, num |-> 0, exp |-> 0]

Unsigned(s) == IF Len(s) > 0 /\ s[1] = "-" THEN Tail(s) ELSE s

IsFloatText(s) ==
    LET u == Unsigned(s)
    IN  /\ \A k \in 1..Len(u) : u[k] \in ({"."} \cup Digits)
        /\ Cardinality({k \in 1..Len(u) : u[k] = "."}) <= 1
        /\ \E k \in 1..Len(u) : u[k] \in Digits

RECURSIVE DigitsValue(_)
DigitsValue(u) ==
    IF u = <<>> THEN 0
    ELSE LET front == SubSeq(u, 1, Len(u) - 1)
             c == u[Len(u)]
         IN  IF c = "." THEN DigitsValue(front)
             ELSE 10 * DigitsValue(front) + DigitVal(c)

FractionLen(u) ==
    LET dots == {k \in 1..Len(u) : u[k] = "."}
    IN  IF dots = {} THEN 0 ELSE Len(u) - Min(dots)

RECURSIVE Normal(_, _)
Normal(n, e) ==
    IF e > 0 /\ n % 10 = 0 THEN Normal(n \div 10, e - 1)
    ELSE [nan |-> FALSE, num |-> n, exp |-> e]

FloatOf(s) ==
    LET u == Unsigned(s)
        m == DigitsValue(u)
    IN  Normal(IF u # s THEN -m ELSE m, FractionLen(u))

\* One element of Series.astype(float): a missing extraction stays NaN, a
\* text float() rejects raises ValueError.
AstypeFloat(m) ==
    IF ~m.matched THEN [ok |-> TRUE, v |-> NaN]
    ELSE IF IsFloatText(m.text) THEN [ok |-> TRUE, v |-> FloatOf(m.text)]
    ELSE [ok |-> FALSE, v |-> NaN]

(***************************************************************************)
(* Tables.  A CSV row holds the seven columns the script reads; read_csv   *)
(* numbers the rows from 0 (the index, which filtering keeps).             *)
(***************************************************************************)
Row(y, mk, c, md, er, ms, loc) ==
    [model_year |-> y, make |-> mk, city |-> c, model |-> md,
     electric_range |-> er, base_msrp |-> ms, vehicle_location |-> loc]

\* POINT (<x> <y>)
PointWkt(x, y) == PointPrefix \o x \o <<" ">> \o y \o <<")">>

\* pd.read_csv(files[0])
ReadCsv(content) ==
    [i \in 1..Len(content) |->
        [index |-> i - 1,
         model_year |-> content[i].model_year,
         make |-> content[i].make,
         city |-> content[i].city,
         model |-> content[i].model,
         electric_range |-> content[i].electric_range,
         base_msrp |-> content[i].base_msrp,
         vehicle_location |-> content[i].vehicle_location]]

\* Lines 81-89 on a raw table: ok is FALSE when one of the conversions
\* raises, and then no cleaned table exists.
CleanTable(rows) ==
    LET n == Len(rows)
        yr == [i \in 1..n |-> AstypeInt(rows[i].model_year)]
        er == [i \in 1..n |-> AstypeInt(Fillna0(rows[i].electric_range))]
        ms == [i \in 1..n |-> AstypeInt(Fillna0(rows[i].base_msrp))]
        lon == [i \in 1..n |-> AstypeFloat(ExtractLon(rows[i].vehicle_location))]
        lat == [i \in 1..n |-> AstypeFloat(ExtractLat(rows[i].vehicle_location))]
        ok == \A i \in 1..n :
                 yr[i].ok /\ er[i].ok /\ ms[i].ok /\ lat[i].ok /\ lon[i].ok
    IN  [ok |-> ok,
         rows |-> IF ~ok THEN <<>>
                  ELSE [i \in 1..n |->
                          [index |-> rows[i].index,
                           model_year |-> yr[i].v,
                           make |-> rows[i].make,
                           city |-> rows[i].city,
                           model |-> rows[i].model,
                           electric_range |-> er[i].v,
                           base_msrp |-> ms[i].v,
                           vehicle_location |-> rows[i].vehicle_location,
                           longitude |-> lon[i].v,
                           latitude |-> lat[i].v]]]

(***************************************************************************)
(* Filtering and aggregation.                                              *)
(***************************************************************************)
\* df["model_year"].unique(), df["make"].unique(), df_f["city"].unique()
YearsOf(d) == {d[i].model_year : i \in 1..Len(d)}
MakesOf(d) == {d[i].make : i \in 1..Len(d)}
CitiesOf(d) == {d[i].city : i \in 1..Len(d)}

\* A variant that joins the two masks with | instead of &.
FilterRows_Or(d, Y, M) ==
    LET Keep(r) == r.model_year \in Y \/ r.make \in M
    IN  SelectSeq(d, Keep)

\* df[(df["model_year"].isin(year)) & (df["make"].isin(make))]
FilterRows(d, Y, M) ==
    LET Keep(r) == r.model_year \in Y /\ r.make \in M
    IN  SelectSeq(d, Keep)

RECURSIVE SumRange(_)
SumRange(d) ==
    IF d = <<>> THEN 0 ELSE d[1].electric_range + SumRange(Tail(d))

\* A variant that rounds the mean up.
IntOfMean_Ceil(d) == -((-SumRange(d)) \div Len(d))

\* int(df_f['electric_range'].mean()) on a table with at least one row
IntOfMean(d) == TruncDiv(SumRange(d), Len(d))

\* Python's order of the manufacturer names that occur in the model.
MakeOrder == <<"NISSAN", "TESLA">>
MakeRank(m) == CHOOSE k \in 1..Len(MakeOrder) : MakeOrder[k] = m

RECURSIVE SortedMakes(_)
SortedMakes(S) ==
    IF S = {} THEN <<>>
    ELSE LET m == CHOOSE x \in S : \A z \in S : MakeRank(x) <= MakeRank(z)
         IN  <<m>> \o SortedMakes(S \ {m})

RECURSIVE SortedYears(_)
SortedYears(S) ==
    IF S = {} THEN <<>>
    ELSE LET m == Min(S) IN <<m>> \o SortedYears(S \ {m})

\* A variant that lists each group once without counting its rows.
GroupByMake_Distinct(d) ==
    LET keys == SortedMakes(MakesOf(d))
    IN  [k \in 1..Len(keys) |-> [make |-> keys[k], Count |-> 1]]

\* df_f.groupby("make").size().reset_index(name="Count")
GroupByMake(d) ==
    LET keys == SortedMakes(MakesOf(d))
    IN  [k \in 1..Len(keys) |->
            [make |-> keys[k],
             Count |-> Cardinality({i \in 1..Len(d) : d[i].make = keys[k]})]]

\* df_f.groupby("model_year").size().reset_index(name="Count")
GroupByYear(d) ==
    LET keys == SortedYears(YearsOf(d))
    IN  [k \in 1..Len(keys) |->
            [model_year |-> keys[k],
             Count |-> Cardinality({i \in 1..Len(d) : d[i].model_year = keys[k]})]]

(***************************************************************************)
(* The rows the dashboard runs are started with.                           *)
(***************************************************************************)
LocPoint == PointWkt(<<"-", "5", ".", "5">>, <<"5">>)
LocFraction == PointWkt(<<"5">>, <<".", "5">>)
LocNoParen == PointPrefix \o <<"5", " ", "5">>
LocNotNumber == PointWkt(<<"5", "-", "5">>, <<"5">>)

RowPool ==
    { Row(IntCell(2020), "TESLA", "Seattle", "MODEL 3", IntCell(215), IntCell(0), LocPoint),
      Row(IntCell(2021), "NISSAN", "Tacoma", "LEAF", IntCell(84), NaNCell, LocFraction),
      Row(IntCell(2021), "TESLA", "Seattle", "MODEL Y", NaNCell, IntCell(5), LocNoParen),
      Row(IntCell(2020), "NISSAN", "Seattle", "LEAF", NumCell(127), IntCell(0), LocPoint),
      Row(IntCell(2021), "TESLA", "Tacoma", "MODEL S", IntCell(-3), IntCell(0), LocFraction),
      Row(NaNCell, "TESLA", "Seattle", "MODEL 3", IntCell(215), IntCell(0), LocPoint),
      Row(IntCell(2020), "NISSAN", "Tacoma", "LEAF", IntCell(84), IntCell(0), LocNotNumber) }

Tables == UNION {[1..n -> RowPool] : n \in 0..MaxRows}

(***************************************************************************)
(* The run.                                                                *)
(***************************************************************************)
Steps ==
    <<"start", "load", "clean", "header", "widgets", "filter", "kpi_total",
      "kpi_makes", "kpi_avg", "kpi_cities", "fig_make", "fig_year",
      "fig_corr", "fig_map", "end">>

StepNo(p) == CHOOSE k \in 1..Len(Steps) : Steps[k] = p

\* The run has completed step p.
Passed(p) == StepNo(pc) > StepNo(p)

NoCache == [has |-> FALSE, rows |-> <<>>]
NoWidget == [set |-> FALSE, year |-> {}, make |-> {}]
NoTiles == [total |-> 0, makes |-> 0, avg |-> 0, cities |-> 0]

\* What a fresh run of the script starts from: nothing of the previous run's
\* namespace or page is kept.
FreshRun ==
    /\ pc' = "start"
    /\ status' = "running"
    /\ loadedFrom' = "none"
    /\ files' = {}
    /\ df' = <<>>
    /\ df_f' = <<>>
    /\ rendered' = {}
    /\ tiles' = NoTiles
    /\ fig_make' = <<>>
    /\ fig_year' = <<>>

Init ==
    /\ dir \in SUBSET FileNames
    /\ csv \in Tables
    /\ cache = NoCache
    /\ scans = 0
    /\ parses = 0
    /\ loadedFrom = "none"
    /\ files = {}
    /\ pc = "start"
    /\ status = "running"
    /\ df = <<>>
    /\ widget = NoWidget
    /\ df_f = <<>>
    /\ rendered = {}
    /\ tiles = NoTiles
    /\ fig_make = <<>>
    /\ fig_year = <<>>

At(p) == status = "running" /\ pc = p

\* st.set_page_config and the style sheet
PageSetup ==
    /\ At("start")
    /\ pc' = "load"
    /\ rendered' = rendered \cup {"style"}
    /\ UNCHANGED <<dir, csv, cache, scans, parses, loadedFrom, files, status,
                   df, widget, df_f, tiles, fig_make, fig_year>>

\* A variant without memoisation: the body runs on every call.
CacheHit_Never == FALSE

\* @st.cache_data: a stored result is returned without running the body.
CacheHit == cache.has

\* df = load_data()
load_data ==
    /\ At("load")
    /\ \/ /\ CacheHit
          /\ df' = cache.rows
          /\ loadedFrom' = "cache"
          /\ pc' = "clean"
          /\ UNCHANGED <<cache, scans, parses, files, status, rendered>>
       \/ /\ ~CacheHit
          /\ scans' = scans + 1
          /\ files' = {f \in dir : IsCsv(f)}
          /\ \/ /\ Cardinality(files') = 0
                /\ rendered' = rendered \cup {"error_no_csv"}
                /\ status' = "stopped"
                /\ UNCHANGED <<cache, parses, loadedFrom, df, pc>>
             \/ /\ Cardinality(files') > 1
                /\ rendered' = rendered \cup {"error_multiple_csv", "files"}
                /\ status' = "stopped"
                /\ UNCHANGED <<cache, parses, loadedFrom, df, pc>>
             \/ /\ Cardinality(files') = 1
                /\ parses' = parses + 1
                /\ cache' = [has |-> TRUE, rows |-> ReadCsv(csv)]
                /\ df' = ReadCsv(csv)
                /\ loadedFrom' = "parse"
                /\ pc' = "clean"
                /\ UNCHANGED <<status, rendered>>
    /\ UNCHANGED <<dir, csv, widget, df_f, tiles, fig_make, fig_year>>

\* A variant in which df is the stored object itself, so that cleaning it
\* rewrites the stored table.
CacheAfterClean_Shared(cleaned) == [has |-> TRUE, rows |-> cleaned]

\* load_data hands out a copy of the stored table, so assigning the columns
\* of df leaves the stored table as it was.
CacheAfterClean(cleaned) == cache

\* Lines 81-89.  An exception ends the run and its namespace is dropped.
CleanData ==
    /\ At("clean")
    /\ LET c == CleanTable(df)
       IN  \/ /\ c.ok
              /\ df' = c.rows
              /\ cache' = CacheAfterClean(c.rows)
              /\ pc' = "header"
              /\ UNCHANGED status
           \/ /\ ~c.ok
              /\ status' = "crashed"
              /\ UNCHANGED <<df, cache, pc>>
    /\ UNCHANGED <<dir, csv, scans, parses, loadedFrom, files, widget, df_f,
                   rendered, tiles, fig_make, fig_year>>

Header ==
    /\ At("header")
    /\ pc' = "widgets"
    /\ rendered' = rendered \cup {"title", "subtitle"}
    /\ UNCHANGED <<dir, csv, cache, scans, parses, loadedFrom, files, status,
                   df, widget, df_f, tiles, fig_make, fig_year>>

\* The two st.sidebar.multiselect calls: the default (every distinct value)
\* is the selection only while the session holds none.
DefaultSelection(d) == [set |-> TRUE, year |-> YearsOf(d), make |-> MakesOf(d)]

SidebarFilters ==
    /\ At("widgets")
    /\ pc' = "filter"
    /\ rendered' = rendered \cup {"filters"}
    /\ widget' = IF widget.set THEN widget ELSE DefaultSelection(df)
    /\ UNCHANGED <<dir, csv, cache, scans, parses, loadedFrom, files, status,
                   df, df_f, tiles, fig_make, fig_year>>

\* df_f = df[...]
Filter ==
    /\ At("filter")
    /\ pc' = "kpi_total"
    /\ df_f' = FilterRows(df, widget.year, widget.make)
    /\ UNCHANGED <<dir, csv, cache, scans, parses, loadedFrom, files, status,
                   df, widget, rendered, tiles, fig_make, fig_year>>

KpiTotal ==
    /\ At("kpi_total")
    /\ pc' = "kpi_makes"
    /\ tiles' = [tiles EXCEPT !.total = Len(df_f)]
    /\ rendered' = rendered \cup {"kpi_total"}
    /\ UNCHANGED <<dir, csv, cache, scans, parses, loadedFrom, files, status,
                   df, widget, df_f, fig_make, fig_year>>

KpiMakes ==
    /\ At("kpi_makes")
    /\ pc' = "kpi_avg"
    /\ tiles' = [tiles EXCEPT !.makes = Cardinality(MakesOf(df_f))]
    /\ rendered' = rendered \cup {"kpi_makes"}
    /\ UNCHANGED <<dir, csv, cache, scans, parses, loadedFrom, files, status,
                   df, widget, df_f, fig_make, fig_year>>

\* The mean of no rows is NaN and int(NaN) raises ValueError.
KpiAvg ==
    /\ At("kpi_avg")
    /\ \/ /\ Len(df_f) > 0
          /\ pc' = "kpi_cities"
          /\ tiles' = [tiles EXCEPT !.avg = IntOfMean(df_f)]
          /\ rendered' = rendered \cup {"kpi_avg"}
          /\ UNCHANGED status
       \/ /\ Len(df_f) = 0
          /\ status' = "crashed"
          /\ UNCHANGED <<pc, tiles, rendered>>
    /\ UNCHANGED <<dir, csv, cache, scans, parses, loadedFrom, files, df,
                   widget, df_f, fig_make, fig_year>>

KpiCities ==
    /\ At("kpi_cities")
    /\ pc' = "fig_make"
    /\ tiles' = [tiles EXCEPT !.cities = Cardinality(CitiesOf(df_f))]
    /\ rendered' = rendered \cup {"kpi_cities", "divider"}
    /\ UNCHANGED <<dir, csv, cache, scans, parses, loadedFrom, files, status,
                   df, widget, df_f, fig_make, fig_year>>

FigMake ==
    /\ At("fig_make")
    /\ pc' = "fig_year"
    /\ fig_make' = GroupByMake(df_f)
    /\ rendered' = rendered \cup {"fig_make"}
    /\ UNCHANGED <<dir, csv, cache, scans, parses, loadedFrom, files, status,
                   df, widget, df_f, tiles, fig_year>>

FigYear ==
    /\ At("fig_year")
    /\ pc' = "fig_corr"
    /\ fig_year' = GroupByYear(df_f)
    /\ rendered' = rendered \cup {"fig_year"}
    /\ UNCHANGED <<dir, csv, cache, scans, parses, loadedFrom, files, status,
                   df, widget, df_f, tiles, fig_make>>

\* The heatmap of df_f[...].corr(); the coefficients are not modelled.
FigCorr ==
    /\ At("fig_corr")
    /\ pc' = "fig_map"
    /\ rendered' = rendered \cup {"fig_corr"}
    /\ UNCHANGED <<dir, csv, cache, scans, parses, loadedFrom, files, status,
                   df, widget, df_f, tiles, fig_make, fig_year>>

\* The scatter map of df_f; the last statement of the script.
FigMap ==
    /\ At("fig_map")
    /\ pc' = "end"
    /\ status' = "done"
    /\ rendered' = rendered \cup {"fig_map"}
    /\ UNCHANGED <<dir, csv, cache, scans, parses, loadedFrom, files, df,
                   widget, df_f, tiles, fig_make, fig_year>>

(***************************************************************************)
(* The user adds or removes one option of a multiselect that is on the     *)
(* page, which ends the current run wherever it is and starts a new one.   *)
(***************************************************************************)
Toggle(S, x) == IF x \in S THEN S \ {x} ELSE S \cup {x}

ChangeYear ==
    /\ "filters" \in rendered
    /\ \E y \in YearsOf(df) :
          widget' = [widget EXCEPT !.year = Toggle(widget.year, y)]
    /\ FreshRun
    /\ UNCHANGED <<dir, csv, cache, scans, parses>>

ChangeMake ==
    /\ "filters" \in rendered
    /\ \E m \in MakesOf(df) :
          widget' = [widget EXCEPT !.make = Toggle(widget.make, m)]
    /\ FreshRun
    /\ UNCHANGED <<dir, csv, cache, scans, parses>>

Next ==
    \/ PageSetup
    \/ load_data
    \/ CleanData
    \/ Header
    \/ SidebarFilters
    \/ Filter
    \/ KpiTotal
    \/ KpiMakes
    \/ KpiAvg
    \/ KpiCities
    \/ FigMake
    \/ FigYear
    \/ FigCorr
    \/ FigMap
    \/ ChangeYear
    \/ ChangeMake

Spec == Init /\ [][Next]_vars

(***************************************************************************)
(* The cleaner on its own: the run stands right after a first successful   *)
(* load, and the table is drawn from tables that enumerate the geometry    *)
(* texts and the numeric cells.                                            *)
(***************************************************************************)
CoordAlphabet == {"-", ".", "5"}
CoordTexts == UNION {[1..k -> CoordAlphabet] : k \in 0..MaxCoordLen}

GeoPrefixes == {PointPrefix, <<"P", "O", "I", "N", "T", "(">>}
GeoSuffixes == {<<")">>, <<>>, <<")", "\n">>}

GeoStrings ==
    {pre \o x \o <<" ">> \o y \o suf :
        pre \in GeoPrefixes, x \in CoordTexts, y \in CoordTexts, suf \in GeoSuffixes}

GeoTables ==
    {<<Row(IntCell(2020), "TESLA", "Seattle", "MODEL 3", IntCell(215), IntCell(0), loc)>> :
        loc \in GeoStrings}

YearCells == {IntCell(2020), NumCell(20215), NaNCell, TextCell}
RangeCells == {IntCell(84), NumCell(127), NumCell(-5), NaNCell, TextCell}
MsrpCells == {IntCell(5), NumCell(-127), NaNCell}

NumRows ==
    {Row(y, "TESLA", "Seattle", "MODEL 3", er, ms, LocPoint) :
        y \in YearCells, er \in RangeCells, ms \in MsrpCells}

NumTables == UNION {[1..n -> NumRows] : n \in 1..MaxCleanRows}

LoadedName == <<"a", ".", "c", "s", "v">>

InitCleaner ==
    /\ dir = {LoadedName}
    /\ csv \in GeoTables \cup NumTables
    /\ cache = [has |-> TRUE, rows |-> ReadCsv(csv)]
    /\ scans = 1
    /\ parses = 1
    /\ loadedFrom = "parse"
    /\ files = {LoadedName}
    /\ pc = "clean"
    /\ status = "running"
    /\ df = ReadCsv(csv)
    /\ widget = NoWidget
    /\ df_f = <<>>
    /\ rendered = {"style"}
    /\ tiles = NoTiles
    /\ fig_make = <<>>
    /\ fig_year = <<>>

SpecCleaner == InitCleaner /\ [][CleanData]_vars

(***************************************************************************)
(* Properties.                                                             *)
(***************************************************************************)
RowsKept(d, Y, M) ==
    {i \in 1..Len(d) : d[i].model_year \in Y /\ d[i].make \in M}

\* C1: after the filter step df_f holds exactly the rows of the cleaned table
\* whose model_year is in the year selection and whose make is in the
\* manufacturer selection, in the table's order; the default selections of a
\* first run keep every row, and an empty selection on either side keeps none.
C1_FilterExact ==
    Passed("filter") =>
        LET keep == RowsKept(df, widget.year, widget.make)
        IN  /\ {df_f[k].index : k \in 1..Len(df_f)} = {df[i].index : i \in keep}
            /\ Len(df_f) = Cardinality(keep)
            /\ \A k \in 1..Len(df_f) : df_f[k] = df[df_f[k].index + 1]
            /\ \A k \in 1..(Len(df_f) - 1) : df_f[k].index < df_f[k + 1].index
            /\ (widget.year = YearsOf(df) /\ widget.make = MakesOf(df)
                    => Len(df_f) = Len(df))
            /\ (loadedFrom = "parse" => Len(df_f) = Len(df))
            /\ (widget.year = {} \/ widget.make = {} => Len(df_f) = 0)

C1_Witness ==
    /\ Passed("filter")
    /\ Len(df) = 2
    /\ Len(df_f) = 1
    /\ widget.year # {}
    /\ widget.make # {}

\* C2: when the filters select no row, the average-mileage step does not
\* fail: the run goes on to the remaining tiles and charts.
C2_EmptyAvgIsGuarded ==
    (pc = "kpi_avg" /\ Len(df_f) = 0) => status = "running"

\* The names of FileNames that end in .csv whatever the case of the letters.
CsvNames == {<<"a", ".", "c", "s", "v">>, <<"B", ".", "C", "S", "V">>}

\* C3: with no or several CSV names in the directory, load_data shows an
\* error (and, for several, the matching names), stops the run, and nothing
\* after it is executed: no table, no cleaning, no header, filters, tiles,
\* charts or map.
C3_HaltOnBadDirectory ==
    LET m == dir \cap CsvNames
    IN  Cardinality(m) # 1 =>
            /\ pc \in {"start", "load"}
            /\ status \in {"running", "stopped"}
            /\ rendered \subseteq {"style", "error_no_csv", "error_multiple_csv", "files"}
            /\ ~cache.has
            /\ parses = 0
            /\ df = <<>>
            /\ (scans > 0 =>
                    /\ status = "stopped"
                    /\ files = m
                    /\ (m = {} => "error_no_csv" \in rendered)
                    /\ (m # {} => {"error_multiple_csv", "files"} \subseteq rendered))

C3_Witness ==
    /\ status = "stopped"
    /\ pc = "load"
    /\ files = CsvNames
    /\ "files" \in rendered

\* A text is a signed decimal: an optional '-', then digits with at most one
\* decimal point.
IsSignedDecimal(t) ==
    LET u == IF Len(t) > 0 /\ t[1] = "-" THEN SubSeq(t, 2, Len(t)) ELSE t
    IN  /\ \A k \in 1..Len(u) : u[k] \in Digits \cup {"."}
        /\ Cardinality({k \in 1..Len(u) : u[k] = "."}) <= 1
        /\ Cardinality({k \in 1..Len(u) : u[k] \in Digits}) >= 1

\* The position of the blank between the coordinates of POINT (x y).
WktBlanks(s) == {k \in (Len(PointPrefix) + 1)..(Len(s) - 1) : s[k] = " "}
WktX(s) == SubSeq(s, Len(PointPrefix) + 1, Min(WktBlanks(s)) - 1)
WktY(s) == SubSeq(s, Min(WktBlanks(s)) + 1, Len(s) - 1)

IsValidWkt(s) ==
    /\ Len(s) > Len(PointPrefix) + 1
    /\ SubSeq(s, 1, Len(PointPrefix)) = PointPrefix
    /\ s[Len(s)] = ")"
    /\ Cardinality(WktBlanks(s)) = 1
    /\ IsSignedDecimal(WktX(s))
    /\ IsSignedDecimal(WktY(s))

NumericCellsOk ==
    \A i \in 1..Len(csv) :
        /\ csv[i].model_year.kind = "num"
        /\ csv[i].electric_range.kind # "text"
        /\ csv[i].base_msrp.kind # "text"

\* C4: a row whose vehicle_location is malformed gets undefined latitude and
\* longitude, stays in the table, and never makes the cleaning fail.
C4_MalformedYieldsNaN ==
    (NumericCellsOk /\ \E i \in 1..Len(csv) : ~IsValidWkt(csv[i].vehicle_location)) =>
        /\ status # "crashed"
        /\ (Passed("clean") =>
                /\ Len(df) = Len(csv)
                /\ \A i \in 1..Len(csv) :
                      ~IsValidWkt(csv[i].vehicle_location) =>
                          df[i].longitude = NaN /\ df[i].latitude = NaN)

\* C5: for every row whose vehicle_location is POINT (x y) with signed
\* decimals x and y, the cleaned row has longitude x and latitude y.
C5_ValidWktRoundTrip ==
    \A i \in 1..Len(csv) :
        (NumericCellsOk /\ IsValidWkt(csv[i].vehicle_location)) =>
            /\ status # "crashed"
            /\ (Passed("clean") =>
                    /\ df[i].longitude = FloatOf(WktX(csv[i].vehicle_location))
                    /\ df[i].latitude = FloatOf(WktY(csv[i].vehicle_location)))

C5_Witness ==
    /\ Passed("clean")
    /\ Len(df) = 1
    /\ csv[1].vehicle_location = PointWkt(<<"-", ".", "5">>, <<"5", ".", "5">>)
    /\ df[1].longitude = [nan |-> FALSE, num |-> -5, exp |-> 1]
    /\ df[1].latitude = [nan |-> FALSE, num |-> 55, exp |-> 1]

\* The integer v is the number of tenths t with its fraction cut off.
TruncatedTo(t, v) ==
    IF t >= 0 THEN 10 * v <= t /\ t < 10 * v + 10
              ELSE 10 * v - 10 < t /\ t <= 10 * v

YearFails == \E i \in 1..Len(csv) : csv[i].model_year.kind # "num"

AllInteger ==
    \A i \in 1..Len(df) :
        /\ df[i].model_year \in Int
        /\ df[i].electric_range \in Int
        /\ df[i].base_msrp \in Int

\* C6, with present values kept unchanged: after cleaning the three columns are integers, a missing
\* electric_range or base_msrp is 0 and every present value is kept as it
\* was; a missing or non-coercible model_year makes cleaning fail.
C6_PresentValuesKept ==
    /\ (YearFails => ~Passed("clean"))
    /\ (YearFails /\ pc = "clean" /\ status # "running" => status = "crashed")
    /\ (Passed("clean") =>
            /\ Len(df) = Len(csv)
            /\ AllInteger
            /\ \A i \in 1..Len(df) :
                  /\ (csv[i].electric_range.kind = "nan" => df[i].electric_range = 0)
                  /\ (csv[i].base_msrp.kind = "nan" => df[i].base_msrp = 0)
                  /\ (csv[i].electric_range.kind = "num"
                        => 10 * df[i].electric_range = csv[i].electric_range.t)
                  /\ (csv[i].base_msrp.kind = "num"
                        => 10 * df[i].base_msrp = csv[i].base_msrp.t))

\* C6: after cleaning the three columns are integers, a missing
\* electric_range or base_msrp is 0 and a present number is cut to its
\* integer part (toward zero), so that a present integer is kept; a missing
\* or non-coercible model_year makes cleaning fail and leaves no cleaned
\* table.
C6_PresentValuesTruncated ==
    /\ (YearFails => ~Passed("clean"))
    /\ (YearFails /\ pc = "clean" /\ status # "running" => status = "crashed")
    /\ (Passed("clean") =>
            /\ Len(df) = Len(csv)
            /\ AllInteger
            /\ \A i \in 1..Len(df) :
                  /\ TruncatedTo(csv[i].model_year.t, df[i].model_year)
                  /\ (csv[i].electric_range.kind = "nan" => df[i].electric_range = 0)
                  /\ (csv[i].base_msrp.kind = "nan" => df[i].base_msrp = 0)
                  /\ (csv[i].electric_range.kind = "num"
                        => TruncatedTo(csv[i].electric_range.t, df[i].electric_range))
                  /\ (csv[i].base_msrp.kind = "num"
                        => TruncatedTo(csv[i].base_msrp.t, df[i].base_msrp)))

C6_Witness ==
    /\ Passed("clean")
    /\ Len(df) = 2
    /\ csv[1].electric_range = NaNCell
    /\ df[1].electric_range = 0
    /\ csv[1].base_msrp = NumCell(-127)
    /\ df[1].base_msrp = -12
    /\ csv[2].electric_range = NumCell(127)
    /\ df[2].electric_range = 12
    /\ csv[2].base_msrp = IntCell(5)
    /\ df[2].base_msrp = 5

\* C7: once loaded, the stored table never changes; within a run no step
\* after the cleaning changes the cleaned table; and the filtered table of a
\* run is the stored table, cleaned, restricted by the selection the
\* widgets hold in that run.
C7_TableImmutable ==
    [][ /\ (cache.has => cache' = cache)
        /\ (StepNo(pc) > StepNo("clean") /\ StepNo(pc') > StepNo("clean")
                => df' = df)
        /\ (StepNo(pc') > StepNo("filter") =>
                LET whole == CleanTable(cache'.rows).rows
                    keep == RowsKept(whole, widget'.year, widget'.make)
                IN  /\ df' = whole
                    /\ Len(df_f') = Cardinality(keep)
                    /\ \A k \in 1..Len(df_f') :
                          /\ df_f'[k].index + 1 \in keep
                          /\ df_f'[k] = whole[df_f'[k].index + 1]) ]_vars

C7_Witness ==
    /\ loadedFrom = "cache"
    /\ Passed("fig_map")
    /\ Len(df) = 2
    /\ Len(df_f) = 1

\* C8: the CSV file is parsed at most once; once the table is stored no run
\* scans the directory or parses again, and load_data returns the stored
\* table.
C8_ParsedAtMostOnce ==
    /\ [](parses <= 1)
    /\ [][ /\ (cache.has => parses' = parses /\ scans' = scans)
           /\ (cache.has /\ pc = "load" /\ pc' = "clean"
                  => df' = cache.rows /\ loadedFrom' = "cache") ]_vars

C8_Witness ==
    /\ loadedFrom = "cache"
    /\ pc = "clean"
    /\ parses = 1
    /\ scans = 1

RECURSIVE SumCounts(_)
SumCounts(g) == IF g = <<>> THEN 0 ELSE g[1].Count + SumCounts(Tail(g))

\* C9: the counts of the manufacturer bar chart sum to the value of the
\* Total EVs tile, and every group shown has a count of at least 1.
C9_GroupCountsSumToTotal ==
    Passed("fig_make") =>
        /\ SumCounts(fig_make) = tiles.total
        /\ \A k \in 1..Len(fig_make) : fig_make[k].Count >= 1

C9_Witness ==
    /\ Passed("fig_make")
    /\ Len(fig_make) = 1
    /\ fig_make[1].Count = 2
    /\ tiles.total = 2

\* C10: for a filtered table with at least one row, the average-mileage tile
\* shows the quotient of the sum of electric_range by the row count with its
\* fraction cut off.
C10_AvgTruncatedMean ==
    "kpi_avg" \in rendered =>
        LET total == SumRange(df_f)
            n == Len(df_f)
        IN  /\ n > 0
            /\ IF total >= 0
                  THEN tiles.avg * n <= total /\ total < (tiles.avg + 1) * n
                  ELSE (tiles.avg - 1) * n < total /\ total <= tiles.avg * n

C10_Witness ==
    /\ "kpi_avg" \in rendered
    /\ Len(df_f) = 2
    /\ SumRange(df_f) = 299
    /\ tiles.avg = 149

====
